---------------------------- MODULE Spec2Model ----------------------------
(***************************************************************************)
(* deploy_frontend.py: connect over SSH, empty the remote web root of its  *)
(* non-hidden entries, upload the local dist tree, list, close.            *)
(*                                                                         *)
(* A remote or local tree is a function from the paths that exist to       *)
(* "dir" or (for a file) its content.  A path is the sequence of names     *)
(* below the root (REMOTE_DIR, resp. LOCAL_DIST), the root being << >>; a   *)
(* name is its sequence of characters, so that startswith('.') is computed. *)
(***************************************************************************)
EXTENDS Naturals, Sequences, FiniteSets, TLC

\* Most entries below the root of the initial remote tree / of the local tree.
MaxRemoteEntries == 2
MaxLocalEntries == 2

\* Names of remote entries, and of local ones (a build output has fewer).
RemoteNames == { <<"a">>, <<"b">>, <<".", "h">> }
LocalNames == { <<"a">>, <<".", "h">> }

\* Contents: of a file the remote side holds before the run, of a local file,
\* and of a remote file a put left truncated.
OldData == {"old"}
LocalData == {"new"}
PartialData == "partial"

NoTree == [q \in {} |-> "dir"]
RootOnly == (<< >> :> "dir")

IsDir(t, p) == p \in DOMAIN t /\ t[p] = "dir"
IsFile(t, p) == p \in DOMAIN t /\ t[p] # "dir"
Front(p) == SubSeq(p, 1, Len(p) - 1)
Last(p) == p[Len(p)]
IsPrefix(p, q) == Len(p) <= Len(q) /\ SubSeq(q, 1, Len(p)) = p
Children(t, p) == { q \in DOMAIN t : Len(q) = Len(p) + 1 /\ Front(q) = p }
Without(t, p) == [q \in DOMAIN t \ {p} |-> t[q]]
With(t, p, v) == [q \in DOMAIN t \cup {p} |-> IF q = p THEN v ELSE t[q]]

\* Every tree of at most n entries below an existing root directory.
Addable(t, N) == { Append(q, nm) : q \in { d \in DOMAIN t : t[d] = "dir" }, nm \in N } \ DOMAIN t
Grow(T, N, D) == T \cup UNION { { With(t, p, v) : p \in Addable(t, N), v \in {"dir"} \cup D } : t \in T }
RECURSIVE TreesUpTo(_, _, _)
TreesUpTo(n, N, D) == IF n = 0 THEN {RootOnly} ELSE Grow(TreesUpTo(n - 1, N, D), N, D)

LocalTrees == TreesUpTo(MaxLocalEntries, LocalNames, LocalData)
\* The remote side: REMOTE_DIR a directory, absent, or (by accident) a file.
RemoteTrees == TreesUpTo(MaxRemoteEntries, RemoteNames, OldData) \cup {NoTree} \cup { (<< >> :> d) : d \in OldData }

VARIABLES
    pc,         \* main()'s position
    stack,      \* frames of rmdir_recursive (cleanup) or upload_directory (upload)
    items,      \* what is left of main's loop over sftp.listdir(REMOTE_DIR)
    remote,     \* the remote tree at and below REMOTE_DIR
    parentOK,   \* REMOTE_DIR's parent directory exists on the server
    local,      \* the local tree at and below LOCAL_DIST
    lastOp,     \* the remote call the last step issued
    warned,     \* how the cleanup phase ended: "none" (not yet), "ok", "warn"
    faulted,    \* a remote call of this run failed though the tree allowed it
    remote0,    \* the remote tree when this run started
    failedDel,  \* remote paths whose sftp.remove failed in this run's cleanup
    uploaded,   \* local files this run has put
    run,        \* 1: first invocation of main(), 2: the second
    faulted1    \* faulted, as the first run ended

vars == <<pc, stack, items, remote, parentOK, local, lastOp, warned, faulted,
          remote0, failedDel, uploaded, run, faulted1>>

\* res: "ok", "fail" (the call raised), "absent" (stat raised FileNotFoundError)
NoOp == [op |-> "none", path |-> << >>, res |-> "ok"]
Op(o, p, r) == [op |-> o, path |-> p, res |-> r]
Res(ok) == IF ok THEN "ok" ELSE "fail"

\* Mutant: the startswith('.') test left out of the cleanup loop
IsHiddenNever(item) == FALSE

\* item.startswith('.')
IsHidden(item) == Len(item) > 0 /\ item[1] = "."

----------------------------------------------------------------------------
(* The SFTP server: when a call succeeds, and what it does.                *)

ParentIsDir(t, p) == IF p = << >> THEN parentOK ELSE IsDir(t, Front(p))
CanListdir(t, p) == IsDir(t, p)
Listing(t, p) == { Last(q) : q \in Children(t, p) }
CanRemove(t, p) == IsFile(t, p)
CanRmdir(t, p) == IsDir(t, p) /\ Children(t, p) = {}
CanMkdir(t, p) == p \notin DOMAIN t /\ ParentIsDir(t, p)
CanPut(t, p) == p # << >> /\ ParentIsDir(t, p) /\ ~IsDir(t, p)

Init ==
    /\ pc = "connect"
    /\ stack = << >>
    /\ items = {}
    /\ parentOK \in BOOLEAN
    /\ remote \in IF parentOK THEN RemoteTrees ELSE {NoTree}
    /\ local \in LocalTrees
    /\ lastOp = NoOp
    /\ warned = "none"
    /\ faulted = FALSE
    /\ remote0 = remote
    /\ failedDel = {}
    /\ uploaded = {}
    /\ run = 1
    /\ faulted1 = FALSE

----------------------------------------------------------------------------
(* Control.  A frame is one activation of rmdir_recursive or of            *)
(* upload_directory: its path below the root, its position, and what is    *)
(* left of its for loop (a listing is iterated in the order the server or  *)
(* the OS returned it, which is any order).                                *)

Frame(p, a, t) == [path |-> p, at |-> a, todo |-> t]
Top == stack[Len(stack)]
Pop == SubSeq(stack, 1, Len(stack) - 1)
SetTop(f) == [stack EXCEPT ![Len(stack)] = f]
LocalListing(p) == Listing(local, p)

Phase ==
    CASE pc = "connect" -> "Disconnected"
      [] pc = "open_sftp" -> "Connected"
      [] pc \in {"clean_list", "clean_loop"} -> "Cleaning"
      [] pc = "upload" -> "Uploading"
      [] pc \in {"final_list", "close_sftp", "close_ssh"} -> "Listing"
      [] pc = "done" -> "Closed"
      [] pc = "failed" -> "Failed"

\* spurious: the call failed although the tree allowed it
Note(op, spurious) ==
    /\ lastOp' = op
    /\ faulted' = (faulted \/ spurious)

\* line 82-84: the exception reaches main's handler and is re-raised
Raise ==
    /\ pc' = "failed"
    /\ stack' = << >>
    /\ items' = {}

\* line 71: upload_directory(sftp, LOCAL_DIST, REMOTE_DIR) is called
StartUpload ==
    /\ pc' = "upload"
    /\ stack' = << Frame(<< >>, "stat", {}) >>
    /\ items' = {}

\* Mutant: no try/except around the cleanup; its exception reaches main's handler
WarnRaises ==
    /\ warned' = "warn"
    /\ Raise

\* line 66-67: the exception reaches the cleanup's handler; the run goes on
Warn ==
    /\ warned' = "warn"
    /\ StartUpload

\* line 40
Connect ==
    /\ pc = "connect"
    /\ \E ok \in BOOLEAN :
        /\ Note(Op("connect", << >>, Res(ok)), ~ok)
        /\ IF ok THEN pc' = "open_sftp" /\ UNCHANGED <<stack, items>> ELSE Raise
    /\ UNCHANGED <<remote, parentOK, local, warned, remote0, failedDel, uploaded, run, faulted1>>

\* line 43
OpenSftp ==
    /\ pc = "open_sftp"
    /\ \E ok \in BOOLEAN :
        /\ Note(Op("open_sftp", << >>, Res(ok)), ~ok)
        /\ IF ok THEN pc' = "clean_list" /\ UNCHANGED <<stack, items>> ELSE Raise
    /\ UNCHANGED <<remote, parentOK, local, warned, remote0, failedDel, uploaded, run, faulted1>>

\* line 48: sftp.listdir(REMOTE_DIR)
CleanList ==
    /\ pc = "clean_list"
    /\ \E fault \in BOOLEAN :
        LET ok == CanListdir(remote, << >>) /\ ~fault IN
        /\ Note(Op("listdir", << >>, Res(ok)), fault /\ CanListdir(remote, << >>))
        /\ IF ok
           THEN /\ pc' = "clean_loop"
                /\ items' = Listing(remote, << >>)
                /\ UNCHANGED <<stack, warned>>
           ELSE Warn
    /\ UNCHANGED <<remote, parentOK, local, remote0, failedDel, uploaded, run, faulted1>>

\* line 48-49: the loop takes an item whose name starts with '.'
CleanSkip ==
    /\ pc = "clean_loop" /\ stack = << >>
    /\ \E item \in items :
        /\ IsHidden(item)
        /\ items' = items \ {item}
    /\ lastOp' = NoOp
    /\ UNCHANGED <<pc, stack, remote, parentOK, local, warned, faulted, remote0,
                   failedDel, uploaded, run, faulted1>>

\* line 49-56, 64: sftp.remove(remote_path); on any failure rmdir_recursive(remote_path)
CleanRemove ==
    /\ pc = "clean_loop" /\ stack = << >>
    /\ \E item \in items, fault \in BOOLEAN :
        LET p == << item >>
            ok == CanRemove(remote, p) /\ ~fault IN
        /\ ~IsHidden(item)
        /\ items' = items \ {item}
        /\ Note(Op("remove", p, Res(ok)), fault /\ CanRemove(remote, p))
        /\ IF ok
           THEN /\ remote' = Without(remote, p)
                /\ UNCHANGED <<stack, failedDel>>
           ELSE /\ stack' = << Frame(p, "list", {}) >>
                /\ failedDel' = failedDel \cup {p}
                /\ UNCHANGED remote
    /\ UNCHANGED <<pc, parentOK, local, warned, remote0, uploaded, run, faulted1>>

\* line 48, 66-69: the loop over the listing is exhausted, no exception
CleanDone ==
    /\ pc = "clean_loop" /\ stack = << >> /\ items = {}
    /\ warned' = "ok"
    /\ StartUpload
    /\ lastOp' = NoOp
    /\ UNCHANGED <<remote, parentOK, local, faulted, remote0, failedDel, uploaded, run, faulted1>>

\* line 57: sftp.listdir(path) in rmdir_recursive
RmList ==
    /\ pc = "clean_loop" /\ stack # << >> /\ Top.at = "list"
    /\ \E fault \in BOOLEAN :
        LET ok == CanListdir(remote, Top.path) /\ ~fault IN
        /\ Note(Op("listdir", Top.path, Res(ok)), fault /\ CanListdir(remote, Top.path))
        /\ IF ok
           THEN /\ stack' = SetTop(Frame(Top.path, "loop", Listing(remote, Top.path)))
                /\ UNCHANGED <<pc, items, warned>>
           ELSE Warn
    /\ UNCHANGED <<remote, parentOK, local, remote0, failedDel, uploaded, run, faulted1>>

\* Mutant: rmdir_recursive skips names that start with '.', as main's loop does
RmRemoveSkipsHidden ==
    /\ pc = "clean_loop" /\ stack # << >> /\ Top.at = "loop"
    /\ \E f \in Top.todo, fault \in BOOLEAN :
        LET fp == Append(Top.path, f)
            ok == CanRemove(remote, fp) /\ ~fault
            rest == Frame(Top.path, "loop", Top.todo \ {f}) IN
        IF IsHidden(f)
        THEN /\ stack' = SetTop(rest)
             /\ lastOp' = NoOp
             /\ UNCHANGED <<remote, failedDel, faulted>>
        ELSE /\ Note(Op("remove", fp, Res(ok)), fault /\ CanRemove(remote, fp))
             /\ IF ok
                THEN /\ remote' = Without(remote, fp)
                     /\ stack' = SetTop(rest)
                     /\ UNCHANGED failedDel
                ELSE /\ stack' = Append(SetTop(rest), Frame(fp, "list", {}))
                     /\ failedDel' = failedDel \cup {fp}
                     /\ UNCHANGED remote
    /\ UNCHANGED <<pc, items, parentOK, local, warned, remote0, uploaded, run, faulted1>>

\* line 57-62: sftp.remove(fp); on any failure rmdir_recursive(fp)
RmRemove ==
    /\ pc = "clean_loop" /\ stack # << >> /\ Top.at = "loop"
    /\ \E f \in Top.todo, fault \in BOOLEAN :
        LET fp == Append(Top.path, f)
            ok == CanRemove(remote, fp) /\ ~fault
            rest == Frame(Top.path, "loop", Top.todo \ {f}) IN
        /\ Note(Op("remove", fp, Res(ok)), fault /\ CanRemove(remote, fp))
        /\ IF ok
           THEN /\ remote' = Without(remote, fp)
                /\ stack' = SetTop(rest)
                /\ UNCHANGED failedDel
           ELSE /\ stack' = Append(SetTop(rest), Frame(fp, "list", {}))
                /\ failedDel' = failedDel \cup {fp}
                /\ UNCHANGED remote
    /\ UNCHANGED <<pc, items, parentOK, local, warned, remote0, uploaded, run, faulted1>>

\* Mutant: a failed rmdir makes rmdir_recursive list the directory again
RmRmdirRetries ==
    /\ pc = "clean_loop" /\ stack # << >> /\ Top.at = "loop" /\ Top.todo = {}
    /\ \E fault \in BOOLEAN :
        LET ok == CanRmdir(remote, Top.path) /\ ~fault IN
        /\ Note(Op("rmdir", Top.path, Res(ok)), fault /\ CanRmdir(remote, Top.path))
        /\ IF ok
           THEN /\ remote' = Without(remote, Top.path)
                /\ stack' = Pop
           ELSE /\ stack' = SetTop(Frame(Top.path, "list", {}))
                /\ UNCHANGED remote
    /\ UNCHANGED <<pc, items, warned, parentOK, local, remote0, failedDel, uploaded, run, faulted1>>

\* line 63: sftp.rmdir(path), and the return of rmdir_recursive
RmRmdir ==
    /\ pc = "clean_loop" /\ stack # << >> /\ Top.at = "loop" /\ Top.todo = {}
    /\ \E fault \in BOOLEAN :
        LET ok == CanRmdir(remote, Top.path) /\ ~fault IN
        /\ Note(Op("rmdir", Top.path, Res(ok)), fault /\ CanRmdir(remote, Top.path))
        /\ IF ok
           THEN /\ remote' = Without(remote, Top.path)
                /\ stack' = Pop
                /\ UNCHANGED <<pc, items, warned>>
           ELSE /\ Warn
                /\ UNCHANGED remote
    /\ UNCHANGED <<parentOK, local, remote0, failedDel, uploaded, run, faulted1>>

\* Mutant: mkdir is called whether or not the stat found the directory
UpStatAlwaysMkdir ==
    /\ pc = "upload" /\ Top.at = "stat"
    /\ \E fault \in BOOLEAN :
        LET there == Top.path \in DOMAIN remote
            res == IF fault THEN "fail" ELSE IF there THEN "ok" ELSE "absent" IN
        /\ Note(Op("stat", Top.path, res), fault)
        /\ IF fault THEN Raise
           ELSE /\ stack' = SetTop(Frame(Top.path, "mkdir", {}))
                /\ UNCHANGED <<pc, items>>
    /\ UNCHANGED <<remote, parentOK, local, warned, remote0, failedDel, uploaded, run, faulted1>>

\* Mutant: the FileNotFoundError of the stat is not caught
UpStatNoProbe ==
    /\ pc = "upload" /\ Top.at = "stat"
    /\ \E fault \in BOOLEAN :
        LET there == Top.path \in DOMAIN remote
            res == IF fault THEN "fail" ELSE IF there THEN "ok" ELSE "absent" IN
        /\ Note(Op("stat", Top.path, res), fault)
        /\ IF fault \/ ~there THEN Raise
           ELSE /\ stack' = SetTop(Frame(Top.path, "loop", LocalListing(Top.path)))
                /\ UNCHANGED <<pc, items>>
    /\ UNCHANGED <<remote, parentOK, local, warned, remote0, failedDel, uploaded, run, faulted1>>

\* line 17-19: sftp.stat(remote_dir); FileNotFoundError leads to mkdir, any
\* other exception leaves upload_directory
UpStat ==
    /\ pc = "upload" /\ Top.at = "stat"
    /\ \E fault \in BOOLEAN :
        LET there == Top.path \in DOMAIN remote
            res == IF fault THEN "fail" ELSE IF there THEN "ok" ELSE "absent" IN
        /\ Note(Op("stat", Top.path, res), fault)
        /\ IF fault THEN Raise
           ELSE /\ stack' = SetTop(IF there
                                   THEN Frame(Top.path, "loop", LocalListing(Top.path))
                                   ELSE Frame(Top.path, "mkdir", {}))
                /\ UNCHANGED <<pc, items>>
    /\ UNCHANGED <<remote, parentOK, local, warned, remote0, failedDel, uploaded, run, faulted1>>

\* line 20-23: sftp.mkdir(remote_dir), then os.listdir(local_dir)
UpMkdir ==
    /\ pc = "upload" /\ Top.at = "mkdir"
    /\ \E fault \in BOOLEAN :
        LET ok == CanMkdir(remote, Top.path) /\ ~fault IN
        /\ Note(Op("mkdir", Top.path, Res(ok)), fault /\ CanMkdir(remote, Top.path))
        /\ IF ok
           THEN /\ remote' = With(remote, Top.path, "dir")
                /\ stack' = SetTop(Frame(Top.path, "loop", LocalListing(Top.path)))
                /\ UNCHANGED <<pc, items>>
           ELSE /\ Raise
                /\ UNCHANGED remote
    /\ UNCHANGED <<parentOK, local, warned, remote0, failedDel, uploaded, run, faulted1>>

\* Mutant: a put that fails is skipped and the loop goes on
UpPutContinues ==
    /\ pc = "upload" /\ Top.at = "loop"
    /\ \E item \in Top.todo, how \in {"ok", "refused", "broken"} :
        LET p == Append(Top.path, item)
            can == CanPut(remote, p) IN
        /\ IsFile(local, p)
        /\ how = "refused" \/ can
        /\ Note(Op("put", p, Res(how = "ok")), how # "ok" /\ can)
        /\ remote' = IF how = "ok" THEN With(remote, p, local[p])
                      ELSE IF how = "broken" THEN With(remote, p, PartialData) ELSE remote
        /\ uploaded' = IF how = "ok" THEN uploaded \cup {p} ELSE uploaded
        /\ stack' = SetTop(Frame(Top.path, "loop", Top.todo \ {item}))
    /\ UNCHANGED <<pc, items, parentOK, local, warned, remote0, failedDel, run, faulted1>>

\* line 23-29: the loop takes a file: sftp.put(local_path, remote_path).  A put
\* that fails was refused (nothing written) or broke off (a truncated file).
UpPut ==
    /\ pc = "upload" /\ Top.at = "loop"
    /\ \E item \in Top.todo, how \in {"ok", "refused", "broken"} :
        LET p == Append(Top.path, item)
            can == CanPut(remote, p) IN
        /\ IsFile(local, p)
        /\ how = "refused" \/ can
        /\ Note(Op("put", p, Res(how = "ok")), how # "ok" /\ can)
        /\ IF how = "ok"
           THEN /\ remote' = With(remote, p, local[p])
                /\ uploaded' = uploaded \cup {p}
                /\ stack' = SetTop(Frame(Top.path, "loop", Top.todo \ {item}))
                /\ UNCHANGED <<pc, items>>
           ELSE /\ remote' = IF how = "broken" THEN With(remote, p, PartialData) ELSE remote
                /\ Raise
                /\ UNCHANGED uploaded
    /\ UNCHANGED <<parentOK, local, warned, remote0, failedDel, run, faulted1>>

\* Mutant: a subdirectory is passed over, not recursed into
UpEnterSkips ==
    /\ pc = "upload" /\ Top.at = "loop"
    /\ \E item \in Top.todo :
        /\ IsDir(local, Append(Top.path, item))
        /\ stack' = SetTop(Frame(Top.path, "loop", Top.todo \ {item}))
    /\ lastOp' = NoOp
    /\ UNCHANGED <<pc, items, remote, parentOK, local, warned, faulted, remote0,
                   failedDel, uploaded, run, faulted1>>

\* line 23-31: the loop takes a directory: upload_directory(sftp, local_path, remote_path)
UpEnter ==
    /\ pc = "upload" /\ Top.at = "loop"
    /\ \E item \in Top.todo :
        LET p == Append(Top.path, item) IN
        /\ IsDir(local, p)
        /\ stack' = Append(SetTop(Frame(Top.path, "loop", Top.todo \ {item})),
                           Frame(p, "stat", {}))
    /\ lastOp' = NoOp
    /\ UNCHANGED <<pc, items, remote, parentOK, local, warned, faulted, remote0,
                   failedDel, uploaded, run, faulted1>>

\* Mutant: the return of a nested upload_directory ends the whole upload
UpReturnEndsUpload ==
    /\ pc = "upload" /\ Top.at = "loop" /\ Top.todo = {}
    /\ stack' = << >>
    /\ pc' = "final_list"
    /\ lastOp' = NoOp
    /\ UNCHANGED <<items, remote, parentOK, local, warned, faulted, remote0,
                   failedDel, uploaded, run, faulted1>>

\* line 23: the loop is exhausted and upload_directory returns
UpReturn ==
    /\ pc = "upload" /\ Top.at = "loop" /\ Top.todo = {}
    /\ stack' = Pop
    /\ pc' = IF Len(stack) = 1 THEN "final_list" ELSE pc
    /\ lastOp' = NoOp
    /\ UNCHANGED <<items, remote, parentOK, local, warned, faulted, remote0,
                   failedDel, uploaded, run, faulted1>>

\* line 75: sftp.listdir(REMOTE_DIR)
FinalList ==
    /\ pc = "final_list"
    /\ \E fault \in BOOLEAN :
        LET ok == CanListdir(remote, << >>) /\ ~fault IN
        /\ Note(Op("listdir", << >>, Res(ok)), fault /\ CanListdir(remote, << >>))
        /\ IF ok THEN pc' = "close_sftp" /\ UNCHANGED <<stack, items>> ELSE Raise
    /\ UNCHANGED <<remote, parentOK, local, warned, remote0, failedDel, uploaded, run, faulted1>>

\* line 78
CloseSftp ==
    /\ pc = "close_sftp"
    /\ \E ok \in BOOLEAN :
        /\ Note(Op("close_sftp", << >>, Res(ok)), ~ok)
        /\ IF ok THEN pc' = "close_ssh" /\ UNCHANGED <<stack, items>> ELSE Raise
    /\ UNCHANGED <<remote, parentOK, local, warned, remote0, failedDel, uploaded, run, faulted1>>

\* line 79-80
CloseSsh ==
    /\ pc = "close_ssh"
    /\ \E ok \in BOOLEAN :
        /\ Note(Op("close_ssh", << >>, Res(ok)), ~ok)
        /\ IF ok THEN pc' = "done" /\ UNCHANGED <<stack, items>> ELSE Raise
    /\ UNCHANGED <<remote, parentOK, local, warned, remote0, failedDel, uploaded, run, faulted1>>

\* line 86-87: the script is run again after a run that completed normally,
\* the local tree unchanged
SecondRun ==
    /\ pc = "done" /\ run = 1
    /\ run' = 2
    /\ pc' = "connect"
    /\ remote0' = remote
    /\ faulted1' = faulted
    /\ faulted' = FALSE
    /\ warned' = "none"
    /\ failedDel' = {}
    /\ uploaded' = {}
    /\ lastOp' = NoOp
    /\ UNCHANGED <<stack, items, remote, parentOK, local>>

Next ==
    \/ Connect
    \/ OpenSftp
    \/ CleanList
    \/ CleanSkip
    \/ CleanRemove
    \/ CleanDone
    \/ RmList
    \/ RmRemove
    \/ RmRmdir
    \/ UpStat
    \/ UpMkdir
    \/ UpPut
    \/ UpEnter
    \/ UpReturn
    \/ FinalList
    \/ CloseSftp
    \/ CloseSsh
    \/ SecondRun

Spec == Init /\ [][Next]_vars

\* One thread runs main() and every call returns or raises: a step that can be
\* taken is taken.
FairSpec == Spec /\ WF_vars(Next)

----------------------------------------------------------------------------
(* Properties.                                                             *)

\* A name that starts with '.', read off the name itself
DotName(nm) == nm # << >> /\ Head(nm) = "."
\* The entries directly in the target directory whose names start with '.',
\* each with its subtree
HiddenPart(t) == [q \in { r \in DOMAIN t : r # << >> /\ DotName(r[1]) } |-> t[q]]
Below(t, p) == { q \in DOMAIN t : IsPrefix(p, q) /\ q # p }
LocalFiles == { p \in DOMAIN local : local[p] # "dir" }
LocalDirs == { p \in DOMAIN local : local[p] = "dir" }
\* The cleanup phase is over and upload_directory has issued no call yet
CleanupJustEnded == pc = "upload" /\ stack = << Frame(<< >>, "stat", {}) >>
Terminated == pc \in {"done", "failed"}

\* C1: when the cleanup phase finishes without its warning branch, no entry
\* directly in the target directory has a name not starting with '.', and the
\* entries whose names start with '.' are, with their subtrees, as before.
C1_CleanupLeavesOnlyHidden ==
    (CleanupJustEnded /\ warned = "ok") =>
        /\ \A q \in Children(remote, << >>) : DotName(Last(q))
        /\ HiddenPart(remote) = HiddenPart(remote0)

C1_Witness ==
    /\ CleanupJustEnded /\ warned = "ok"
    /\ \E q \in Children(remote0, << >>) : ~DotName(Last(q)) /\ remote0[q] = "dir"
    /\ \E q \in Children(remote0, << >>) : DotName(Last(q))

\* C2: after normal completion every local file has a remote file at the same
\* relative path with the same content.
C2_FilesMirrored ==
    pc = "done" => \A p \in LocalFiles : p \in DOMAIN remote /\ remote[p] = local[p]

C2_Witness ==
    /\ pc = "done"
    /\ \E p \in LocalFiles : Len(p) = 2 /\ IsFile(remote0, Front(p))

\* C3: after normal completion every local directory, empty ones and the root
\* included, has a remote directory at the same relative path.
\* Stated for the runs in which no remote call failed but for the tree's state;
\* a run that violates it violates the claim as worded.
C3_DirsMirrored ==
    (pc = "done" /\ ~faulted) => \A d \in LocalDirs : IsDir(remote, d)

\* C4 as stated: a remote call that fails ends the run as failed, unless it is
\* a direct delete or the listing of the target directory that opens cleanup.
C4_OnlyTopListingRecovered ==
    lastOp.res = "fail" =>
        \/ pc = "failed"
        \/ lastOp.op = "remove"
        \/ lastOp.op = "listdir" /\ lastOp.path = << >>

\* C4 as amended: a failed direct delete switches to recursive removal; a
\* failed listing or rmdir anywhere in the cleanup phase ends the cleanup with
\* the warning and starts the upload; a stat that reports absence leads to
\* mkdir; every other failing call ends the run as failed, and nothing runs
\* after that.
C4_CleanupFailuresRecovered ==
    [][ /\ pc # "failed"
        /\ lastOp'.res = "fail" =>
              IF lastOp'.op = "remove"
              THEN pc' = "clean_loop" /\ stack'[Len(stack')] = Frame(lastOp'.path, "list", {})
              ELSE IF Phase = "Cleaning"
              THEN lastOp'.op \in {"listdir", "rmdir"} /\ warned' = "warn" /\ CleanupJustEnded'
              ELSE pc' = "failed"
        /\ lastOp'.res = "absent" =>
              pc' = "upload" /\ stack'[Len(stack')] = Frame(lastOp'.path, "mkdir", {})
      ]_vars

C4_Witness ==
    /\ lastOp.op = "rmdir" /\ lastOp.res = "fail"
    /\ Len(lastOp.path) = 2
    /\ pc = "upload"

\* C5 as stated, its second half: a second run that completes normally leaves
\* the remote tree as the first run left it.
C5_SecondRunSameTree ==
    (run = 2 /\ pc = "done") => remote = remote0

\* C5 as amended: after a first run that completed normally, the second run
\* fails only if one of its remote calls fails though the tree allows it; and
\* if no call of the first run failed that way, a second run that completes
\* normally leaves the remote tree equal to the tree after the first run.
C5_Idempotent ==
    run = 2 =>
        /\ pc = "failed" => faulted
        /\ (pc = "done" /\ ~faulted1) => remote = remote0

C5_Witness ==
    /\ run = 2 /\ pc = "done" /\ ~faulted1
    /\ uploaded # {}
    /\ HiddenPart(remote) # NoTree
    /\ failedDel # {}

PhaseAfter(ph) ==
    CASE ph = "Disconnected" -> "Connected"
      [] ph = "Connected" -> "Cleaning"
      [] ph = "Cleaning" -> "Uploading"
      [] ph = "Uploading" -> "Listing"
      [] ph = "Listing" -> "Closed"
      [] OTHER -> "none"

\* C6: a step stays in its phase, moves to the next one of Disconnected,
\* Connected, Cleaning, Uploading, Listing, Closed, or, on a failed call, to
\* Failed, which no step leaves (from Closed only a new run starts); stat, mkdir
\* and put are issued only in Uploading, after the cleanup has ended; the final
\* listing only when every local file has been put and every upload_directory
\* has returned; the session is closed only after the final listing succeeded.
C6_PhaseOrder ==
    [][ /\ Phase # "Failed"
        /\ \/ Phase' = Phase
           \/ Phase' = PhaseAfter(Phase)
           \/ Phase' = "Failed" /\ lastOp'.res = "fail"
           \/ Phase = "Closed" /\ Phase' = "Disconnected" /\ run' = run + 1
        /\ lastOp'.op \in {"stat", "mkdir", "put"} => Phase = "Uploading" /\ warned # "none"
        /\ lastOp'.op \in {"remove", "rmdir"} => Phase = "Cleaning"
        /\ (lastOp'.op = "listdir" /\ Phase # "Cleaning") =>
              /\ Phase = "Listing"
              /\ uploaded = LocalFiles /\ stack = << >>
        /\ lastOp'.op = "close_sftp" => lastOp = Op("listdir", << >>, "ok")
        /\ lastOp'.op = "close_ssh" => lastOp = Op("close_sftp", << >>, "ok")
        /\ Phase' = "Closed" => lastOp' = Op("close_ssh", << >>, "ok")
      ]_vars

C6_Witness ==
    /\ pc = "done"
    /\ failedDel # {}
    /\ warned = "ok"
    /\ \E p \in uploaded : Len(p) = 2

\* C7: a put that fails ends the run as failed, every upload_directory frame
\* left; after that no step happens (no put, mkdir, stat, listing or close); the
\* files put before are on the remote side with their content.
C7_PutFailureAborts ==
    [][ /\ pc # "failed"
        /\ (lastOp'.op = "put" /\ lastOp'.res = "fail") =>
              /\ pc' = "failed" /\ stack' = << >>
              /\ \A p \in uploaded : p \in DOMAIN remote' /\ remote'[p] = local[p]
      ]_vars

C7_Witness ==
    /\ pc = "failed"
    /\ lastOp.op = "put" /\ lastOp.res = "fail"
    /\ uploaded # {}

RootAbsentAtStart == run = 1 /\ << >> \notin DOMAIN remote0

\* C8 as stated (for the runs in which no call fails though the tree allows
\* it): with the target directory absent when cleanup starts, the run does
\* not fail.
C8_AbsentTargetNeverFails ==
    (RootAbsentAtStart /\ ~faulted) => pc # "failed"

\* C8 as amended: with the target directory absent when cleanup starts, the
\* cleanup ends in its warning branch with no delete issued and the tree
\* untouched; the run fails only if the target's parent directory is missing
\* or a remote call fails though the tree allows it; on normal completion the
\* remote tree is the local tree; and the run terminates.
C8_AbsentTargetUploads ==
    /\ [](RootAbsentAtStart =>
            /\ warned \in {"none", "warn"} /\ failedDel = {}
            /\ CleanupJustEnded => remote = remote0
            /\ pc = "failed" => (faulted \/ ~parentOK)
            /\ pc = "done" => remote = local)
    /\ (RootAbsentAtStart /\ pc = "connect") ~> Terminated

C8_Witness ==
    /\ RootAbsentAtStart /\ pc = "done"
    /\ \E p \in LocalFiles : Len(p) = 2

\* C9: rmdir is issued only on a path whose direct delete failed in this
\* cleanup and below which nothing is left, whatever the names of what was
\* there.
C9_RmdirOnlyWhenEmptied ==
    [][ lastOp'.op = "rmdir" =>
          /\ lastOp'.path \in failedDel
          /\ Below(remote, lastOp'.path) = {}
      ]_vars

C9_Witness ==
    /\ lastOp.op = "rmdir" /\ lastOp.res = "ok"
    /\ \E q \in Below(remote0, lastOp.path) : DotName(Last(q))

\* C10: whichever remote calls fail, the run terminates, failed or completed;
\* and so does the run that follows a completed one.
C10_Terminates == <>(pc = "failed" \/ (pc = "done" /\ run = 2))

C10_Witness ==
    /\ pc = "done" /\ run = 2
    /\ \E p \in failedDel : Len(p) = 2
    /\ \E p \in uploaded : Len(p) = 2

=============================================================================
